---- MODULE Spec2Model ----
(***************************************************************************)
(* tabarules/processing.py: labelling of the columns of a dataframe        *)
(* (float_processer, boolean_processer, cat_processer), the choice of the  *)
(* labeler (list_featurize_series) and the row-wise store                  *)
(* (list_featurize_df).                                                    *)
(*                                                                         *)
(* A numeric cell is an integer of 0..MaxVal or NaN; a cell of an object   *)
(* column is a string or None; an entry of a labelled column is a label    *)
(* (a string) or NA, the np.nan the labelers append.  A series carries its *)
(* dtype and its values under the default RangeIndex, so that series[i] is *)
(* vals[i+1].  legacy_reindex tells the pandas the program runs on: older  *)
(* than 1.0 (a list lookup reindexes over labels that are missing) or not  *)
(* (it raises KeyError).                                                   *)
(***************************************************************************)
EXTENDS Integers, Sequences, FiniteSets, TLC

VARIABLES pc, legacy_reindex, series, title, cutoffs, which_yes, na_action, df, ret

vars == <<pc, legacy_reindex, series, title, cutoffs, which_yes, na_action, df, ret>>

\* ---------------------------------------------------------------- bounds
MaxLen == 4
MaxVal == 2
MaxCutoffs == 4
MaxRows == 2
MaxCols == 2

\* ---------------------------------------------------------------- values
NaN == -1
None == "None"
NA == "nan"

NumCells == (0..MaxVal) \cup {NaN}
ObjCells == {"a", "b", None}
NaActions == {"label", "return_na", "drop"}

isnan(v) == v = NaN

\* pd.isna of a cell of a series of that dtype
isna(v, dtype) == IF dtype = "O" THEN v = None ELSE v = NaN

SeqsOf(S, n) == [1..n -> S]

\* pandas' dtype of a numeric column: an integer column holding a missing
\* value is float64
NumSeries(vals) ==
  [dtype |-> IF \E k \in 1..Len(vals) : isnan(vals[k]) THEN "float64" ELSE "int64",
   vals |-> vals]

ObjSeries(vals) == [dtype |-> "O", vals |-> vals]

\* ---------------------------------------------------------------- results
Raise(kind) == [status |-> kind]

RECURSIVE Flatten(_)
Flatten(ss) == IF ss = <<>> THEN <<>> ELSE Head(ss) \o Flatten(Tail(ss))

\* ---------------------------------------------------------------- pandas, numpy
RECURSIVE Insert(_, _)
Insert(v, s) ==
  IF s = <<>> THEN <<v>>
  ELSE IF v <= Head(s) THEN <<v>> \o s
  ELSE <<Head(s)>> \o Insert(v, Tail(s))

RECURSIVE sort_values(_)
sort_values(s) == IF s = <<>> THEN <<>> ELSE Insert(Head(s), sort_values(Tail(s)))

RECURSIVE unique(_)
unique(s) ==
  IF s = <<>> THEN <<>>
  ELSE LET u == unique(SubSeq(s, 1, Len(s) - 1))
           v == s[Len(s)]
       IN IF \E k \in 1..Len(u) : u[k] = v THEN u ELSE Append(u, v)

ceil(num, den) == (num + den - 1) \div den

\* x <= y of two floats: False when either is NaN
Le(x, y) == ~isnan(x) /\ ~isnan(y) /\ x <= y

\* s[ind] of a series s under the index 0..Len(s)-1, ind a list of labels.
\* A label that is not in the index raises KeyError; a pandas older than 1.0
\* raises only when no label of the list is in the index, and otherwise
\* reindexes, with NaN (and dtype float64) at the labels that are not.
GetItemList(s, dtype, ind) ==
  LET present(k) == ind[k] >= 0 /\ ind[k] < Len(s)
      missing == {k \in 1..Len(ind) : ~present(k)}
  IN IF missing = {}
     THEN [status |-> "ok", dtype |-> dtype,
           vals |-> [k \in 1..Len(ind) |-> s[ind[k] + 1]]]
     ELSE IF legacy_reindex /\ missing # 1..Len(ind)
     THEN [status |-> "ok", dtype |-> "float64",
           vals |-> [k \in 1..Len(ind) |-> IF present(k) THEN s[ind[k] + 1] ELSE NaN]]
     ELSE Raise("KeyError")

\* a[k] of a numpy array, k negative counting from the end
NpIndexUnchecked(a, k) ==
  LET pos == IF k < 0 THEN k + Len(a) ELSE k
  IN IF pos >= 0 /\ pos < Len(a)
     THEN [status |-> "ok", val |-> a[pos + 1]]
     ELSE [status |-> "ok", val |-> NaN]

NpIndex(a, k) ==
  LET pos == IF k < 0 THEN k + Len(a) ELSE k
  IN IF pos >= 0 /\ pos < Len(a)
     THEN [status |-> "ok", val |-> a[pos + 1]]
     ELSE Raise("IndexError")

\* str(val) of a numpy scalar
str(v, dtype) ==
  IF isnan(v) THEN "nan"
  ELSE IF dtype = "float64" THEN ToString(v) \o ".0"
  ELSE ToString(v)

\* ---------------------------------------------------------------- missing values
\* The branch on a missing cell that opens the row loop of each labeler:
\* what it appends, and whether it continues with the next row.
NaBranchNoContinue(missing, t, action) ==
  IF missing /\ action = "label" THEN [emit |-> <<t \o "_is_na">>, continue |-> FALSE]
  ELSE IF missing /\ action = "return_na" THEN [emit |-> <<NA>>, continue |-> TRUE]
  ELSE [emit |-> <<>>, continue |-> FALSE]

NaBranch(missing, t, action) ==
  IF missing /\ action = "label" THEN [emit |-> <<t \o "_is_na">>, continue |-> TRUE]
  ELSE IF missing /\ action = "return_na" THEN [emit |-> <<NA>>, continue |-> TRUE]
  ELSE [emit |-> <<>>, continue |-> FALSE]

\* ---------------------------------------------------------------- float_processer
\* The scan of the cutoffs for one value: the 1-based position of the label
\* it appends, from position j on; 0 when it appends nothing.
RECURSIVE ScanStrict(_, _, _)
ScanStrict(x, cutoff_vals, j) ==
  IF j > Len(cutoff_vals) THEN 0
  ELSE IF ~isnan(x) /\ ~isnan(cutoff_vals[j]) /\ x < cutoff_vals[j] THEN j
  ELSE IF j = Len(cutoff_vals) THEN Len(cutoff_vals) + 1
  ELSE ScanStrict(x, cutoff_vals, j + 1)

RECURSIVE Scan(_, _, _)
Scan(x, cutoff_vals, j) ==
  IF j > Len(cutoff_vals) THEN 0
  ELSE IF Le(x, cutoff_vals[j]) THEN j
  ELSE IF j = Len(cutoff_vals) THEN Len(cutoff_vals) + 1
  ELSE Scan(x, cutoff_vals, j + 1)

CutoffValInd(n, c) == [k \in 1..(IF c > 1 THEN c - 1 ELSE 0) |-> ceil(k * n, c)]

\* find splits in data based on ordering: the cutoff values, or the KeyError
\* of the lookup
CutoffVals(s, c) ==
  LET not_na_series == SelectSeq(s.vals, LAMBDA v : ~isnan(v))
      len_series == Len(not_na_series)
  IN GetItemList(sort_values(not_na_series), s.dtype, CutoffValInd(len_series, c))

\* label creation: the labels, or the IndexError of cutoff_vals[cutoffs-2]
StrLabels(t, c, cutoff_vals, dtype) ==
  LET last == NpIndex(cutoff_vals, c - 2)
  IN IF last.status # "ok" THEN Raise("IndexError")
     ELSE [status |-> "ok",
           labels |-> [k \in 1..Len(cutoff_vals) |->
                         t \o "_lessthan_" \o str(cutoff_vals[k], dtype)]
                      \o <<t \o "_morethan_" \o str(last.val, dtype)>>]

\* the position of the label row i receives; 0 when the missing-value branch
\* continues with the next row
Bucket(s, t, action, cutoff_vals, i) ==
  IF NaBranch(isna(s.vals[i], s.dtype), t, action).continue THEN 0
  ELSE Scan(s.vals[i], cutoff_vals, 1)

\* populate a list with the appropriate label for the data
FloatOutput(s, t, action, cutoff_vals, str_labels, bucket) ==
  [status |-> "ok",
   out |-> Flatten([i \in 1..Len(s.vals) |->
             NaBranch(isna(s.vals[i], s.dtype), t, action).emit
               \o (IF bucket[i] = 0 THEN <<>> ELSE <<str_labels[bucket[i]]>>)]),
   cutoff_vals |-> cutoff_vals,
   str_labels |-> str_labels,
   bucket |-> bucket]

FloatLabelled(s, t, c, action, cutoff_vals, labels) ==
  IF labels.status # "ok" THEN labels
  ELSE FloatOutput(s, t, action, cutoff_vals, labels.labels,
                   [i \in 1..Len(s.vals) |-> Bucket(s, t, action, cutoff_vals, i)])

FloatFromCutoffs(s, t, c, action, got) ==
  IF got.status # "ok" THEN got
  ELSE FloatLabelled(s, t, c, action, got.vals, StrLabels(t, c, got.vals, got.dtype))

float_processer(s, t, c, action) ==
  FloatFromCutoffs(s, t, c, action, CutoffVals(s, c))

\* ---------------------------------------------------------------- boolean_processer
boolean_processer(s, t, wy, action) ==
  LET len_series == Len(s.vals)
      str_labels == <<t \o "_no", t \o "_yes">>
      na(i) == NaBranch(isna(s.vals[i], s.dtype), t, action)
      row(i) == na(i).emit
                  \o (IF na(i).continue THEN <<>>
                      ELSE IF s.vals[i] = wy THEN <<str_labels[2]>>
                      ELSE <<str_labels[1]>>)
  IN [status |-> "ok",
      out |-> Flatten([i \in 1..len_series |-> row(i)]),
      str_labels |-> str_labels]

\* ---------------------------------------------------------------- cat_processer
cat_processer(s, t, action) ==
  LET len_series == Len(s.vals)
      not_na_series == SelectSeq(s.vals, LAMBDA v : ~isna(v, s.dtype))
      unique_vals == unique(not_na_series)
      str_labels == [j \in 1..Len(unique_vals) |-> t \o "_is_" \o unique_vals[j]]
      na(i) == NaBranch(isna(s.vals[i], s.dtype), t, action)
      matches(i) == Flatten([j \in 1..Len(unique_vals) |->
                      IF s.vals[i] = unique_vals[j] THEN <<str_labels[j]>> ELSE <<>>])
      row(i) == na(i).emit \o (IF na(i).continue THEN <<>> ELSE matches(i))
  IN [status |-> "ok",
      out |-> Flatten([i \in 1..len_series |-> row(i)]),
      str_labels |-> str_labels]

\* ---------------------------------------------------------------- list_featurize_series
\* The labeler the type switch selects.
Labeler(s) ==
  IF s.dtype = "O" THEN "cat_processer"
  ELSE IF SelectSeq(unique(s.vals), LAMBDA v : ~isna(v, s.dtype)) = <<0, 1>>
  THEN "boolean_processer"
  ELSE "float_processer"

list_featurize_series(s, t, c, wy, action) ==
  CASE Labeler(s) = "cat_processer" -> cat_processer(s, t, action)
    [] Labeler(s) = "boolean_processer" -> boolean_processer(s, t, wy, action)
    [] OTHER -> float_processer(s, t, c, action)

\* ---------------------------------------------------------------- list_featurize_df
DefaultCutoffs == 4
DefaultWhichYes == 1
DefaultNaAction == "return_na"

\* every entry of the row is kept
KeepAll(row) == row

\* the entries of a row of df_out that are not missing
DropNa(row) == SelectSeq(row, LAMBDA v : v # NA)

\* upon completion, go thru and make a key-value store
Store(df_out, nrows) ==
  [i \in 1..nrows |-> DropNa([k \in 1..Len(df_out) |-> df_out[k].out[i]])]

\* loop thru series: the labelled columns, or the first error a column raises
Assemble(df_out, nrows) ==
  LET failed == {k \in 1..Len(df_out) : df_out[k].status # "ok"}
  IN IF failed # {}
     THEN Raise(df_out[CHOOSE k \in failed : \A m \in failed : k <= m].status)
     ELSE [status |-> "ok", store |-> Store(df_out, nrows)]

\* A dataframe is the sequence of its columns, each a name and a series of
\* the same length.
list_featurize_df(d) ==
  Assemble([k \in 1..Len(d) |->
              list_featurize_series(d[k].series, d[k].name,
                                    DefaultCutoffs, DefaultWhichYes, DefaultNaAction)],
           Len(d[1].series.vals))

\* ---------------------------------------------------------------- inputs
NumColumns == UNION {{NumSeries(v) : v \in SeqsOf(NumCells, n)} : n \in 1..MaxLen}
ObjColumns == UNION {{ObjSeries(v) : v \in SeqsOf(ObjCells, n)} : n \in 1..MaxLen}

ScenarioA == NumSeries(<<1, 2, 3, 4, 5, 6, 7, 8>>)
ScenarioB == NumSeries(<<0, 1, 1, NaN>>)
ScenarioC == ObjSeries(<<"a", "b", "a", None>>)

NumInputs == NumColumns \cup {ScenarioA, ScenarioB}
ObjInputs == ObjColumns \cup {ScenarioC}

IsNumeric(s) == s.dtype # "O"

Init ==
  /\ pc = "ready"
  /\ legacy_reindex \in BOOLEAN
  /\ \/ series \in NumInputs
     \/ series \in ObjInputs
  /\ title = "title"
  /\ cutoffs = DefaultCutoffs
  /\ which_yes = DefaultWhichYes
  /\ na_action = DefaultNaAction
  /\ df = <<>>
  /\ ret = Raise("none")

FloatProcesser ==
  /\ pc = "ready"
  /\ IsNumeric(series)
  /\ \E c \in 0..MaxCutoffs, a \in NaActions :
       /\ cutoffs' = c
       /\ na_action' = a
       /\ ret' = float_processer(series, title, c, a)
  /\ pc' = "float_processer"
  /\ UNCHANGED <<legacy_reindex, series, title, which_yes, df>>

BooleanProcesser ==
  /\ pc = "ready"
  /\ IsNumeric(series)
  /\ \E wy \in 0..MaxVal, a \in NaActions :
       /\ which_yes' = wy
       /\ na_action' = a
       /\ ret' = boolean_processer(series, title, wy, a)
  /\ pc' = "boolean_processer"
  /\ UNCHANGED <<legacy_reindex, series, title, cutoffs, df>>

CatProcesser ==
  /\ pc = "ready"
  /\ ~IsNumeric(series)
  /\ \E a \in NaActions :
       /\ na_action' = a
       /\ ret' = cat_processer(series, title, a)
  /\ pc' = "cat_processer"
  /\ UNCHANGED <<legacy_reindex, series, title, cutoffs, which_yes, df>>

ListFeaturizeSeries ==
  /\ pc = "ready"
  /\ \E c \in 0..MaxCutoffs, wy \in 0..MaxVal, a \in NaActions :
       /\ cutoffs' = c
       /\ which_yes' = wy
       /\ na_action' = a
       /\ ret' = list_featurize_series(series, title, c, wy, a)
  /\ pc' = "list_featurize_series"
  /\ UNCHANGED <<legacy_reindex, series, title, df>>

Next ==
  \/ FloatProcesser
  \/ BooleanProcesser
  \/ CatProcesser
  \/ ListFeaturizeSeries

Spec == Init /\ [][Next]_vars

\* ---------------------------------------------------------------- dataframes
DfNumCells == {NaN, 0, 1}

DfColumns(kind, nrows) ==
  IF kind = "O" THEN {ObjSeries(v) : v \in SeqsOf(ObjCells, nrows)}
  ELSE {NumSeries(v) : v \in SeqsOf(DfNumCells, nrows)}

ColName(k) == "c" \o ToString(k)

\* the dataframes of nrows rows whose columns have the kinds of shape
RECURSIVE DataFrames(_, _)
DataFrames(shape, nrows) ==
  IF shape = <<>> THEN {<<>>}
  ELSE LET k == Len(shape)
       IN {Append(d, [name |-> ColName(k), series |-> col]) :
             d \in DataFrames(SubSeq(shape, 1, k - 1), nrows),
             col \in DfColumns(shape[k], nrows)}

Shapes == UNION {[1..n -> {"O", "num"}] : n \in 1..MaxCols}

ScenarioCDf == <<[name |-> "title", series |-> ScenarioC]>>
ScenarioEDf == <<[name |-> "x", series |-> NumSeries(<<1, 2, 3>>)],
                 [name |-> "y", series |-> ObjSeries(<<"a", "b", "a">>)]>>
FourRowsDf == <<[name |-> "x", series |-> NumSeries(<<3, 1, 2, 0>>)],
                [name |-> "y", series |-> ObjSeries(<<"a", None, "b", "a">>)],
                [name |-> "z", series |-> NumSeries(<<0, NaN, 1, 1>>)]>>

InitDf ==
  /\ pc = "ready"
  /\ legacy_reindex \in BOOLEAN
  /\ \/ \E shape \in Shapes, nrows \in 1..MaxRows : df \in DataFrames(shape, nrows)
     \/ df = ScenarioCDf
     \/ df = ScenarioEDf
     \/ df = FourRowsDf
  /\ series = ScenarioA
  /\ title = "title"
  /\ cutoffs = DefaultCutoffs
  /\ which_yes = DefaultWhichYes
  /\ na_action = DefaultNaAction
  /\ ret = Raise("none")

ListFeaturizeDf ==
  /\ pc = "ready"
  /\ ret' = list_featurize_df(df)
  /\ pc' = "list_featurize_df"
  /\ UNCHANGED <<legacy_reindex, series, title, cutoffs, which_yes, na_action, df>>

NextDf == ListFeaturizeDf

SpecDf == InitDf /\ [][NextDf]_vars

\* ---------------------------------------------------------------- properties
NonMissing(s) == SelectSeq(s.vals, LAMBDA v : ~isna(v, s.dtype))
MissingRows(s) == {i \in 1..Len(s.vals) : isna(s.vals[i], s.dtype)}
PresentRows(s) == (1..Len(s.vals)) \ MissingRows(s)
ValidNaAction == na_action \in {"label", "return_na"}
Returned == ret.status = "ok"
LabelerCall == pc \in {"float_processer", "boolean_processer", "cat_processer"}
Least(S) == CHOOSE j \in S : \A m \in S : j <= m

\* the labelled column each column's labeler returns, under the defaults
ColumnLabels(d) ==
  [k \in 1..Len(d) |->
     list_featurize_series(d[k].series, d[k].name,
                           DefaultCutoffs, DefaultWhichYes, DefaultNaAction).out]

\* store has one itemset per row, and the itemset of row i holds the entry of
\* each column that is not missing, at the rank of the column among those
ItemsetsAreRows(store, labels, nrows) ==
  /\ Len(store) = nrows
  /\ \A i \in 1..nrows :
       LET kept == {k \in 1..Len(labels) : labels[k][i] # NA}
       IN /\ Len(store[i]) = Cardinality(kept)
          /\ \A k \in kept : store[i][Cardinality({m \in kept : m <= k})] = labels[k][i]

\* C1: float_processer takes as its i-th cutoff (i in 0..cutoffs-2) the value
\* at the 1-based position ceil((i+1)/cutoffs * n) of the ascending non-missing
\* values; for [1..8] and cutoffs = 4 the cutoffs are 2, 4, 6, every bucket
\* receives 2 values and 4 is labelled title_lessthan_4.
C1_CutoffAtCeilPosition ==
  (pc = "float_processer" /\ Returned /\ cutoffs >= 2) =>
    /\ \A i \in 0..(cutoffs - 2) :
         LET pos == ceil((i + 1) * Len(NonMissing(series)), cutoffs)
         IN pos \in 1..Len(NonMissing(series)) =>
              ret.cutoff_vals[i + 1] = sort_values(NonMissing(series))[pos]
    /\ (series = ScenarioA /\ cutoffs = 4) =>
         /\ ret.cutoff_vals = <<2, 4, 6>>
         /\ \A b \in 1..4 : Cardinality({i \in 1..8 : ret.bucket[i] = b}) = 2
         /\ ret.out[4] = "title_lessthan_4"

\* C2: list_featurize_series hands an object column to cat_processer, a
\* numeric column whose set of distinct non-missing values is {0, 1} to
\* boolean_processer whatever the order of their first appearance, and every
\* other numeric column to float_processer.
C2_BooleanWhateverTheOrder ==
  pc = "list_featurize_series" =>
    ret = IF series.dtype = "O" THEN cat_processer(series, title, na_action)
          ELSE IF {series.vals[i] : i \in PresentRows(series)} = {0, 1}
          THEN boolean_processer(series, title, which_yes, na_action)
          ELSE float_processer(series, title, cutoffs, na_action)

\* C3: list_featurize_df completes on every dataset and returns one itemset
\* per row, each of at most as many tokens as there are columns; so it does
\* for three rows of one continuous and one categorical column.
C3_OneItemsetPerRow ==
  pc = "list_featurize_df" =>
    /\ Returned
    /\ Len(ret.store) = Len(df[1].series.vals)
    /\ \A i \in 1..Len(ret.store) : Len(ret.store[i]) <= Len(df)

\* C4: float_processer does not fail on a column of no or of one non-missing
\* value: it returns one entry per row.
C4_DegenerateColumnLabelled ==
  (/\ pc = "float_processer"
   /\ cutoffs >= 2
   /\ ValidNaAction
   /\ Len(NonMissing(series)) <= 1) =>
    /\ Returned
    /\ Len(ret.out) = Len(series.vals)

\* C5: the i-th itemset list_featurize_df returns holds, in the order of the
\* columns, the label each column's labeler gives row i, the missing entries
\* removed: one token for each column whose entry is not missing, at the rank
\* of the column among them, and none when all are missing; the column
\* a, b, a, None yields [title_is_a], [title_is_b], [title_is_a], [].
C5_ItemsetIsRowOfLabels ==
  (pc = "list_featurize_df" /\ Returned) =>
    /\ ItemsetsAreRows(ret.store, ColumnLabels(df), Len(df[1].series.vals))
    /\ df = ScenarioCDf =>
         ret.store = <<<<"title_is_a">>, <<"title_is_b">>, <<"title_is_a">>, <<>>>>

\* a store of several columns with a row that lost an entry and kept another,
\* and a row that lost them all
C5_Witness ==
  /\ pc = "list_featurize_df"
  /\ Returned
  /\ Len(df) >= 2
  /\ \E i \in 1..Len(ret.store) : Len(ret.store[i]) > 0 /\ Len(ret.store[i]) < Len(df)
  /\ \E i \in 1..Len(ret.store) : ret.store[i] = <<>>

C7_UnknownPolicyRejected ==
  (LabelerCall /\ ~ValidNaAction) => ~Returned

\* C8: for each labeler, the output under the policy label differs from the
\* output under return_na at the missing rows only, where the missing marker
\* becomes <title>_is_na; the labels of the other rows and the cutoffs are
\* the same.
C8_PolicyChangesMissingRowsOnly ==
  (LabelerCall /\ na_action = "return_na") =>
    LET labelled ==
          CASE pc = "float_processer" -> float_processer(series, title, cutoffs, "label")
            [] pc = "boolean_processer" -> boolean_processer(series, title, which_yes, "label")
            [] OTHER -> cat_processer(series, title, "label")
    IN /\ labelled.status = ret.status
       /\ Returned =>
            /\ Len(ret.out) = Len(series.vals)
            /\ Len(labelled.out) = Len(series.vals)
            /\ labelled.str_labels = ret.str_labels
            /\ pc = "float_processer" => labelled.cutoff_vals = ret.cutoff_vals
            /\ \A i \in MissingRows(series) :
                 ret.out[i] = NA /\ labelled.out[i] = title \o "_is_na"
            /\ \A i \in PresentRows(series) :
                 ret.out[i] = labelled.out[i] /\ ret.out[i] # NA

C8_Witness ==
  /\ pc = "float_processer"
  /\ na_action = "return_na"
  /\ Returned
  /\ MissingRows(series) # {}
  /\ \E i, k \in PresentRows(series) : ret.out[i] # ret.out[k]

\* C9: float_processer gives a non-missing value the label of the first
\* cutoff, in ascending order, that it does not exceed, and the morethan label
\* when there is none, so that a value equal to a cutoff is in the lower
\* bucket; and of two non-missing values the smaller is in no later bucket.
C9_FirstCutoffNotExceeded ==
  (pc = "float_processer" /\ Returned) =>
    /\ \A i \in PresentRows(series) :
         LET x == series.vals[i]
             hits == {j \in 1..Len(ret.cutoff_vals) :
                        ret.cutoff_vals[j] # NaN /\ x <= ret.cutoff_vals[j]}
             first == IF hits = {} THEN Len(ret.cutoff_vals) + 1 ELSE Least(hits)
         IN /\ ret.bucket[i] = first
            /\ ret.out[i] = ret.str_labels[first]
            /\ \A j \in 1..Len(ret.cutoff_vals) : x = ret.cutoff_vals[j] => ret.bucket[i] <= j
    /\ \A i, k \in PresentRows(series) :
         series.vals[i] <= series.vals[k] => ret.bucket[i] <= ret.bucket[k]
    /\ \A j \in 1..(Len(ret.cutoff_vals) - 1) :
         (ret.cutoff_vals[j] # NaN /\ ret.cutoff_vals[j + 1] # NaN)
           => ret.cutoff_vals[j] <= ret.cutoff_vals[j + 1]

\* a value equal to a cutoff in that cutoff's bucket, and a value above every
\* cutoff in the last
C9_Witness ==
  /\ pc = "float_processer"
  /\ Returned
  /\ Len(ret.cutoff_vals) >= 2
  /\ \E i \in PresentRows(series) :
       ret.bucket[i] = 2 /\ series.vals[i] = ret.cutoff_vals[2]
  /\ \E i \in PresentRows(series) : ret.bucket[i] = Len(ret.cutoff_vals) + 1

\* C10: boolean_processer fails with an error (TypeMismatch, by the claim) on
\* a column holding a non-missing value other than 0 and 1, and labels no such
\* value; on the other columns it labels the value equal to which_yes
\* <title>_yes and the other value <title>_no.
C10_NonBooleanRejected ==
  pc = "boolean_processer" =>
    IF \E i \in PresentRows(series) : series.vals[i] \notin {0, 1}
    THEN ~Returned
    ELSE /\ Returned
         /\ \A i \in PresentRows(series) :
              ValidNaAction =>
                ret.out[i] = IF series.vals[i] = which_yes
                             THEN title \o "_yes" ELSE title \o "_no"
====
